---- MODULE Spec2Model ----
(***************************************************************************)
(* Expense Splitter API (src/main.py): the expenses table, the request     *)
(* validators, the create/update/delete handlers, get_balances and the     *)
(* two-pointer loop of get_settlements.                                    *)
(*                                                                         *)
(* Units.  A stored amount is a whole number of cents (DECIMAL(10,2)).     *)
(* A request amount is a whole number of thousandths of the currency unit  *)
(* (mills), so that the quantize step of validate_amount is a real         *)
(* conversion.  Inside get_balances / get_settlements the balances are     *)
(* paid - total/num_people; they are kept exactly as the integer           *)
(* num_people*paid - total, i.e. in units of 1/num_people cent ("scaled"), *)
(* each divided in Grain parts (see Floats).  One cent is then             *)
(* num_people*Grain parts.                                                 *)
(*                                                                         *)
(* Floats.  The handlers compute with binary floats.  The model computes   *)
(* the same quantities exactly, and draws the float residue (the float is  *)
(* just below or just above the exact value) wherever it decides a         *)
(* comparison:                                                             *)
(*   - round(x, 2) at a decimal tie returns the lower or the upper cent;   *)
(*   - x <= 0.01 with x exactly one cent is true or false;                 *)
(*   - a balance that is exactly zero, computed for two or more payers    *)
(*     over three or more rows, is 0.0 or a tiny negative or positive      *)
(*     float, so that balance < 0 and balance > 0 go either way.  To hold  *)
(*     such a float every scaled unit is divided in Grain parts, and the   *)
(*     tiny float is one part.                                             *)
(*                                                                         *)
(* The variable inexact records that such a residue has decided an outcome *)
(* of the run.                                                             *)
(*                                                                         *)
(* Tokens.  paid_by and description are strings that the code only strips  *)
(* and compares; they are modelled as naturals, 0 standing for a blank     *)
(* string.  An expense id (uuid4) is a natural.                            *)
(***************************************************************************)
EXTENDS Integers, Sequences, FiniteSets

\* ---------------------------------------------------------------- bounds
MaxRecords == 4      \* rows of the expenses table read by the two GET handlers
MaxAmount  == 3      \* largest stored amount, in cents
MaxStored  == 2      \* rows the table holds under StoreSpec
MaxMills   == 12     \* largest request amount magnitude, in mills
Grain      == 4      \* parts of a scaled unit; one part is a float residue

VARIABLES
    expenses,        \* the expenses table, in scan order
    status,          \* HTTP status of the last create/update/delete request (0: none yet)
    balances,        \* the mapping returned by the last get_balances
    balancesReturned,\* get_balances has answered for the current table
    pc,              \* get_settlements: "idle", "loop", "done" (200), "error" (IndexError, 500)
    rows,            \* get_settlements: the rows it fetched
    debtors,         \* get_settlements: list of <<person, scaled balance>>
    creditors,       \* get_settlements: list of <<person, scaled balance>>
    i,               \* get_settlements: pointer into debtors (0-based)
    j,               \* get_settlements: pointer into creditors (0-based)
    settlements,     \* get_settlements: the list it appends to
    iters,           \* get_settlements: loop iterations executed so far
    inexact          \* a float residue has decided an outcome of a GET handler

vars == <<expenses, status, balances, balancesReturned, pc, rows,
          debtors, creditors, i, j, settlements, iters, inexact>>

storeVars == <<expenses, status>>
loopVars  == <<pc, rows, debtors, creditors, i, j, settlements, iters, inexact>>

\* ------------------------------------------------------------ arithmetic
Abs(x) == IF x < 0 THEN -x ELSE x

Min(a, b) == IF a <= b THEN a ELSE b

\* Sign of a float residue: below or above the exact value.
Residues == {-1, 1}

\* Residue of a balance: none, or one part below or above.
BalanceResidues == {-1, 0, 1}

\* Round2 with a floor in place of the rounding to nearest.
Round2Floor(num, den, res) == num \div den

\* round(x, 2) of Python for x = num/den cents, den > 0.  The result is the
\* nearest cent; at a decimal tie the float residue res decides.
Round2(num, den, res) ==
    LET q == num \div den
        r == num % den
    IN  IF 2 * r < den THEN q
        ELSE IF 2 * r > den THEN q + 1
        ELSE IF res > 0 THEN q + 1 ELSE q

\* Decimal.quantize(Decimal("0.01"), rounding=ROUND_HALF_UP) of a positive
\* decimal given in mills: the result in cents.
Quantize(v) == (v + 5) \div 10

\* ------------------------------------------------------- request validation
\* ExpenseCreate.validate_amount: the check is made on the raw request value.
validate_amount(v) == v > 0

\* ExpenseCreate.validate_description / validate_paid_by: not v.strip().
validate_description(d) == d # 0

validate_paid_by(p) == p # 0

ExpenseCreate(v, d, p) ==
    validate_amount(v) /\ validate_description(d) /\ validate_paid_by(p)

ReqAmounts == (-MaxMills)..MaxMills
ReqTokens  == 0..MaxStored
ReqIds     == 1..(MaxStored + 1)

Ids(tbl) == {tbl[k].id : k \in DOMAIN tbl}

RowOf(tbl, id) == CHOOSE k \in DOMAIN tbl : tbl[k].id = id

RemoveAt(tbl, k) ==
    [m \in 1..(Len(tbl) - 1) |-> IF m < k THEN tbl[m] ELSE tbl[m + 1]]

\* ------------------------------------------------------------ the handlers
\* POST /expenses with a body that passes validation.
create_expense(v, d, p, id) ==
    /\ ExpenseCreate(v, d, p)
    /\ Len(expenses) < MaxStored
    /\ id \notin Ids(expenses)
    /\ expenses' = Append(expenses,
                          [id |-> id, amount |-> Quantize(v),
                           description |-> d, paid_by |-> p])
    /\ status' = 200
    /\ balancesReturned' = FALSE
    /\ UNCHANGED <<balances, loopVars>>

\* POST /expenses or PUT /expenses/{id} with a body that fails validation:
\* the handler is not entered.
validation_error(v, d, p) ==
    /\ ~ExpenseCreate(v, d, p)
    /\ status' = 422
    /\ UNCHANGED <<expenses, balances, balancesReturned, loopVars>>

\* PUT /expenses/{expense_id} with a body that passes validation.
update_expense(id, v, d, p) ==
    /\ ExpenseCreate(v, d, p)
    /\ IF id \in Ids(expenses)
       THEN /\ expenses' = [expenses EXCEPT ![RowOf(expenses, id)] =
                               [id |-> id, amount |-> Quantize(v),
                                description |-> d, paid_by |-> p]]
            /\ status' = 200
            /\ balancesReturned' = FALSE
       ELSE /\ status' = 404
            /\ UNCHANGED <<expenses, balancesReturned>>
    /\ UNCHANGED <<balances, loopVars>>

\* DELETE /expenses/{expense_id}.
delete_expense(id) ==
    /\ IF id \in Ids(expenses)
       THEN /\ expenses' = RemoveAt(expenses, RowOf(expenses, id))
            /\ status' = 200
            /\ balancesReturned' = FALSE
       ELSE /\ status' = 404
            /\ UNCHANGED <<expenses, balancesReturned>>
    /\ UNCHANGED <<balances, loopVars>>

\* ------------------------------------------------- balances of a row list
RECURSIVE total_amount(_)
total_amount(rs) ==
    IF rs = <<>> THEN 0 ELSE rs[1].amount + total_amount(Tail(rs))

People(rs) == {rs[k].paid_by : k \in DOMAIN rs}

num_people(rs) == Cardinality(People(rs))

\* balances[person] after the accumulation loop: what the person paid.
Paid(rs, p) == total_amount(SelectSeq(rs, LAMBDA r : r.paid_by = p))

\* One cent, in parts, for n payers.
Cent(n) == n * Grain

\* balances[person] - fair_share with fair_share = total_amount / num_people,
\* exactly, in parts.
ScaledBalance(rs, p) ==
    Grain * (num_people(rs) * Paid(rs, p) - total_amount(rs))

\* The residues the float balances of rs can carry: none on a nonzero
\* balance (it changes neither balance < 0 nor balance > 0), none for a
\* single payer (paid and total are the same sum, divided by 1) and none for
\* two rows (a zero balance means a + a, halved: both exact).
ResidueMaps(rs) ==
    LET Z == IF num_people(rs) >= 2 /\ Len(rs) >= 3
             THEN {p \in People(rs) : ScaledBalance(rs, p) = 0}
             ELSE {}
    IN  UNION {{[p \in People(rs) |->
                    IF p \in neg THEN -1 ELSE IF p \in pos THEN 1 ELSE 0] :
                  pos \in SUBSET (Z \ neg)} :
               neg \in SUBSET Z}

\* x, in parts, is a decimal tie for n payers: half a cent between two cents.
IsTie(x, n) == 2 * (x % Cent(n)) = Cent(n)

\* The payers whose exact balance is a decimal tie.
TiePeople(rs) ==
    {p \in People(rs) : IsTie(ScaledBalance(rs, p), num_people(rs))}

\* Keys of the balances dict in insertion order: first appearance in rs.
RECURSIVE KeyOrder(_, _)
KeyOrder(rs, seen) ==
    IF rs = <<>> THEN <<>>
    ELSE IF rs[1].paid_by \in seen THEN KeyOrder(Tail(rs), seen)
    ELSE <<rs[1].paid_by>> \o KeyOrder(Tail(rs), seen \cup {rs[1].paid_by})

\* balances.items() before the partition.
BalanceItems(rs, r) ==
    LET ks == KeyOrder(rs, {})
    IN  [k \in DOMAIN ks |-> <<ks[k], ScaledBalance(rs, ks[k]) + r[ks[k]]>>]

\* if balance < 0
IsDebtor(item) == item[2] < 0

\* IsCreditor with the comparison of IsDebtor.
IsCreditorSame(item) == item[2] < 0

\* if balance > 0
IsCreditor(item) == item[2] > 0

Debtors(rs, r) == SelectSeq(BalanceItems(rs, r), IsDebtor)

Creditors(rs, r) == SelectSeq(BalanceItems(rs, r), IsCreditor)

\* GET /balances.  One request is followed per table content.
get_balances ==
    /\ ~balancesReturned
    /\ \E below \in SUBSET TiePeople(expenses) :
          balances' = [p \in People(expenses) |->
                          Round2(ScaledBalance(expenses, p),
                                 Cent(num_people(expenses)),
                                 IF p \in below THEN -1 ELSE 1)]
    /\ balancesReturned' = TRUE
    /\ inexact' = (inexact \/ TiePeople(expenses) # {})
    /\ UNCHANGED <<storeVars, pc, rows, debtors, creditors, i, j,
                   settlements, iters>>

\* ------------------------------------------------------- GET /settlements
\* Fetch; no rows: return at once; else balances, partition, i, j = 0, 0.
\* One request is followed, from its fetch to its response.
get_settlements ==
    /\ pc = "idle"
    /\ rows' = expenses
    /\ \E r \in ResidueMaps(expenses) :
          /\ debtors' = Debtors(expenses, r)
          /\ creditors' = Creditors(expenses, r)
          /\ inexact' = (inexact \/ \E p \in People(expenses) : r[p] # 0)
    /\ i' = 0
    /\ j' = 0
    /\ settlements' = <<>>
    /\ iters' = 0
    /\ pc' = IF expenses = <<>> THEN "done" ELSE "loop"
    /\ UNCHANGED <<storeVars, balances, balancesReturned>>

LoopCondition == i < Len(debtors) /\ j < Len(creditors)

CurDebt == Abs(debtors[i + 1][2])

CurCredit == Abs(creditors[j + 1][2])

CurAmount == Min(CurDebt, CurCredit)

\* Exhausted with an epsilon of 1.00 in place of 0.01.
ExhaustedDollar(x, n, res) ==
    x < 100 * Cent(n) \/ (x = 100 * Cent(n) /\ res < 0)

\* debt <= 0.01 / credit <= 0.01 for n payers; res decides at exactly 0.01.
Exhausted(x, n, res) == x < Cent(n) \/ (x = Cent(n) /\ res < 0)

\* One iteration of the while loop.
loop_iteration ==
    /\ pc = "loop"
    /\ LoopCondition
    /\ LET n        == num_people(rows)
           debtor   == debtors[i + 1][1]
           creditor == creditors[j + 1][1]
           amount   == CurAmount
           debt     == CurDebt - amount
           credit   == CurCredit - amount
       IN  /\ IF amount > 0
              THEN \E res \in Residues :
                      settlements' = Append(settlements,
                          [from |-> debtor, to |-> creditor,
                           amount |-> Round2(amount, Cent(n), res)])
              ELSE settlements' = settlements
           /\ \E res \in Residues :
                 /\ i' = IF Exhausted(debt, n, res) THEN i + 1 ELSE i
                 /\ j' = IF Exhausted(credit, n, res) THEN j + 1 ELSE j
           /\ iters' = iters + 1
           /\ IF i' >= Len(debtors)
              THEN \* debtors[i] = None: IndexError
                   /\ pc' = "error"
                   /\ UNCHANGED <<debtors, creditors>>
              ELSE /\ debtors' = [debtors EXCEPT ![i' + 1] = <<debtor, -debt>>]
                   /\ IF j' >= Len(creditors)
                      THEN \* creditors[j] = None: IndexError
                           /\ pc' = "error"
                           /\ UNCHANGED creditors
                      ELSE /\ creditors' = [creditors EXCEPT
                                               ![j' + 1] = <<creditor, credit>>]
                           /\ pc' = "loop"
           /\ inexact' = (inexact \/ (amount > 0 /\ IsTie(amount, n))
                                   \/ debt = Cent(n) \/ credit = Cent(n))
    /\ UNCHANGED <<storeVars, balances, balancesReturned, rows>>

\* The while condition is false: return {"settlements": settlements}.
loop_exit ==
    /\ pc = "loop"
    /\ ~LoopCondition
    /\ pc' = "done"
    /\ UNCHANGED <<storeVars, balances, balancesReturned, rows,
                   debtors, creditors, i, j, settlements, iters, inexact>>

\* --------------------------------------------------------- specifications
RECURSIVE PayerSeqs(_)
\* Payer columns of length n, the payers numbered by first appearance.
PayerSeqs(n) ==
    IF n = 0 THEN {<<>>}
    ELSE UNION {{Append(s, p) : p \in 1..(Cardinality({s[k] : k \in DOMAIN s}) + 1)} :
                s \in PayerSeqs(n - 1)}

\* The table with amount column a and payer column ps.
Table(a, ps) ==
    [k \in DOMAIN ps |-> [id |-> k, amount |-> a[k],
                          description |-> 1, paid_by |-> ps[k]]]

Idle ==
    /\ status = 0
    /\ balances = <<>>
    /\ balancesReturned = FALSE
    /\ pc = "idle"
    /\ rows = <<>>
    /\ debtors = <<>>
    /\ creditors = <<>>
    /\ i = 0
    /\ j = 0
    /\ settlements = <<>>
    /\ iters = 0
    /\ inexact = FALSE

\* The two read handlers over every table within the bounds that satisfies
\* the ExpenseRecord invariants (amount > 0, payer not blank); the payers are
\* numbered by first appearance, the code comparing them only for equality.
Init ==
    /\ \E n \in 0..MaxRecords :
          \E ps \in PayerSeqs(n), a \in [1..n -> 1..MaxAmount] :
              expenses = Table(a, ps)
    /\ Idle

Next == get_balances \/ get_settlements \/ loop_iteration \/ loop_exit

Spec == Init /\ [][Next]_vars

\* The write handlers from the empty table.
StoreInit == expenses = <<>> /\ Idle

StoreNext ==
    \/ \E v \in ReqAmounts, d \in ReqTokens, p \in ReqTokens :
          \/ \E id \in ReqIds : create_expense(v, d, p, id)
          \/ validation_error(v, d, p)
          \/ \E id \in ReqIds : update_expense(id, v, d, p)
    \/ \E id \in ReqIds : delete_expense(id)

StoreSpec == StoreInit /\ [][StoreNext]_vars

\* ------------------------------------------------------------ properties
Answered == pc \in {"done", "error"}

RECURSIVE SumOver(_, _)
\* Sum of f over the set S.
SumOver(f, S) ==
    IF S = {} THEN 0
    ELSE LET x == CHOOSE y \in S : TRUE
         IN  f[x] + SumOver(f, S \ {x})

\* Cents person p pays (sign = 1) or receives (sign = -1) in the list ss.
RECURSIVE Transferred(_, _, _)
Transferred(ss, p, sign) ==
    IF ss = <<>> THEN 0
    ELSE (IF (sign = 1 /\ ss[1].from = p) \/ (sign = -1 /\ ss[1].to = p)
          THEN ss[1].amount ELSE 0) + Transferred(Tail(ss), p, sign)

\* Balance of p, in parts, once the settlements of ss are applied.
Remaining(rs, ss, p) ==
    ScaledBalance(rs, p)
        + Cent(num_people(rs)) * (Transferred(ss, p, 1) - Transferred(ss, p, -1))

\* Round-half-up of num/den (den > 0): a tie rounds away from zero.
RoundHalfUp(num, den) ==
    LET q == num \div den
        r == num % den
    IN  IF 2 * r < den THEN q
        ELSE IF 2 * r > den THEN q + 1
        ELSE IF num > 0 THEN q + 1 ELSE q

\* C1: for every non-empty record set, once get_settlements has ended,
\* applying its settlements to the balances of the record set leaves every
\* payer within one cent of zero (stated for the runs in which no float
\* residue decided an outcome).
SettlementCorrectness ==
    (Answered /\ rows # <<>> /\ ~inexact) =>
        \A p \in People(rows) :
            Abs(Remaining(rows, settlements, p)) <= Cent(num_people(rows))

\* C2: get_settlements never ends in an error (stated for the runs in which
\* no float residue decided an outcome).
NeverEndsInError ==
    ~inexact => pc # "error"

\* C3: get_balances returns, for exactly the distinct payers of the table,
\* paid(p) - total/|P| rounded half-up (a tie away from zero) to the cent.
BalancesRoundHalfUp ==
    balancesReturned =>
        /\ DOMAIN balances = People(expenses)
        /\ \A p \in People(expenses) :
              balances[p] = RoundHalfUp(ScaledBalance(expenses, p),
                                        Cent(num_people(expenses)))

\* C4 as stated: the balances returned for a non-empty record set sum to
\* within one cent of zero.
ZeroSumWithinOneCent ==
    (balancesReturned /\ expenses # <<>>) =>
        Abs(SumOver(balances, DOMAIN balances)) <= 1

\* C4 as amended: the balances returned for a non-empty record set sum to
\* within half a cent per distinct payer of zero.
ZeroSumWithinHalfCentPerPayer ==
    (balancesReturned /\ expenses # <<>>) =>
        2 * Abs(SumOver(balances, DOMAIN balances)) <= num_people(expenses)

\* Four payers whose returned balances sum to two cents.
ZeroSumWitness ==
    /\ balancesReturned
    /\ num_people(expenses) = 4
    /\ Abs(SumOver(balances, DOMAIN balances)) = 2

\* C5: every settlement appended by get_settlements reports an amount > 0
\* (stated for the runs in which no float residue decided an outcome).
SettlementAmountsPositive ==
    ~inexact =>
        \A k \in DOMAIN settlements : settlements[k].amount > 0

\* C6: every record held in the store has an amount > 0.
StoredAmountsPositive ==
    \A k \in DOMAIN expenses : expenses[k].amount > 0

\* C7: a payer whose balance returned by get_balances is 0.00 is neither the
\* from nor the to of a settlement of get_settlements on the same records
\* (stated for the runs in which no float residue decided an outcome).
ZeroBalanceExcluded ==
    (balancesReturned /\ pc # "idle" /\ rows = expenses /\ ~inexact) =>
        \A p \in DOMAIN balances :
            balances[p] = 0 =>
                \A k \in DOMAIN settlements :
                    settlements[k].from # p /\ settlements[k].to # p

\* C8: in every settlement appended by get_settlements, at any iteration,
\* the from payer differs from the to payer.
NoSelfSettlement ==
    \A k \in DOMAIN settlements : settlements[k].from # settlements[k].to

\* A settlement of a whole cent or more is in the list and the loop goes on
\* over rewritten lists.
NoSelfSettlementWitness ==
    /\ pc = "loop"
    /\ iters >= 1
    /\ ~inexact
    /\ settlements # <<>>
    /\ settlements[1].amount > 0
    /\ LoopCondition

\* The two-pointer sweep of the design over debtors ds and creditors cs
\* (lists of <<person, balance>>), from positions ii, jj (1-based) with
\* d and c left of the current debtor and creditor; cent is one cent.
RECURSIVE Sweep(_, _, _, _, _, _, _, _)
Sweep(ds, cs, ii, jj, d, c, cent, out) ==
    IF ii > Len(ds) \/ jj > Len(cs) THEN out
    ELSE LET amount == RoundHalfUp(Min(d, c), cent)
             d2     == d - amount * cent
             c2     == c - amount * cent
             ni     == IF d2 <= cent THEN ii + 1 ELSE ii
             nj     == IF c2 <= cent THEN jj + 1 ELSE jj
             nd     == IF ni = ii THEN d2
                       ELSE IF ni <= Len(ds) THEN Abs(ds[ni][2]) ELSE 0
             nc     == IF nj = jj THEN c2
                       ELSE IF nj <= Len(cs) THEN Abs(cs[nj][2]) ELSE 0
             out2   == IF amount > 0
                       THEN Append(out, [from |-> ds[ii][1], to |-> cs[jj][1],
                                         amount |-> amount])
                       ELSE out
         IN  Sweep(ds, cs, ni, nj, nd, nc, cent, out2)

\* The settlements of the sweep for the record set rs.
SweepSettlements(rs) ==
    LET zero == [p \in People(rs) |-> 0]
        ds   == Debtors(rs, zero)
        cs   == Creditors(rs, zero)
    IN  IF ds = <<>> \/ cs = <<>> THEN <<>>
        ELSE Sweep(ds, cs, 1, 1, Abs(ds[1][2]), Abs(cs[1][2]),
                   Cent(num_people(rs)), <<>>)

\* C9: the settlement sequence of get_settlements is the one of the
\* two-pointer sweep over the balances in mapping order (stated for the runs
\* in which no float residue decided an outcome).
SettlementsEqualSweep ==
    (Answered /\ ~inexact) =>
        settlements = SweepSettlements(rows)

\* C10: the loop terminates: every iteration runs under the loop condition
\* and advances at least one pointer, a pointer advances by one and only
\* when what is left of the debt (credit) is at most one cent, the loop is
\* left as soon as a pointer has exhausted its list, and so there are at most
\* |debtors| + |creditors| - 1 iterations (none when a list is empty) and at
\* most as many settlements.
LoopTerminates ==
    /\ [](/\ iters <= i + j
          /\ i <= Len(debtors)
          /\ j <= Len(creditors)
          /\ Len(settlements) <= iters
          /\ (iters > 0 => iters <= Len(debtors) + Len(creditors) - 1)
          /\ (pc = "loop" /\ iters > 0 => LoopCondition))
    /\ [][iters' = iters + 1 =>
            /\ pc = "loop" /\ LoopCondition
            /\ i' \in {i, i + 1}
            /\ j' \in {j, j + 1}
            /\ i' + j' > i + j
            /\ (i' > i => CurDebt - CurAmount <= Cent(num_people(rows)))
            /\ (j' > j => CurCredit - CurAmount <= Cent(num_people(rows)))
            /\ (i' >= Len(debtors) \/ j' >= Len(creditors) => pc' # "loop")]_vars

\* The loop has ended after the largest number of iterations, three or more.
LoopTerminatesWitness ==
    /\ Answered
    /\ iters >= 3
    /\ iters = Len(debtors) + Len(creditors) - 1

====
